---- MODULE Spec2Model ----
(***************************************************************************)
(* Model of the Gumbo suggestion engine of zavionapp:                      *)
(*   src/gum/services/rate_limiter.py   TokenBucketRateLimiter,            *)
(*                                      GumboRateLimiter                   *)
(*   src/gum/services/gumbo_engine.py   GumboEngine.trigger_gumbo_...      *)
(*   src/gum/suggestion_engine.py       EntityExtractor, BundleCreator,    *)
(*                                      SuggestionDeduplicator,            *)
(*                                      EnhancedSuggestionEngine           *)
(*   src/gum/buffer_manager.py          BufferManager                      *)
(*                                                                         *)
(* Numbers.  Token counts are floats in the code; here they are integers   *)
(* counting 1/TokenUnit of a token.  The clock (datetime.now) is an        *)
(* integer number of ticks; refill_rate is the number of token units       *)
(* credited per tick.  Floating point rounding is not modelled.            *)
(*                                                                         *)
(* Environment.  Trigger calls run one after the other, each on a session  *)
(* with nothing pending; the wall clock does not step back;                *)
(* session.rollback() does not raise.  Every LLM call, the proposition     *)
(* search, every add/flush, the commit, the delivery update and every SSE  *)
(* broadcast may fail.                                                     *)
(***************************************************************************)
EXTENDS Integers, Sequences, FiniteSets, TLC

\* ------------------------------------------------------------------ bounds
TokenUnit == 2      \* token units per whole token (resolution of the floats)
MaxTime == 2        \* the clock runs from 0 to MaxTime ticks
MaxCapacity == 2    \* SpecBucket: capacities 1..MaxCapacity
MaxRate == 1        \* SpecBucket: refill rates 0..MaxRate units per tick
MaxAcquire == 2     \* SpecBucket: acquire(n) with n in -1..MaxAcquire
NumThreads == 2     \* SpecBucket: number of caller threads
MaxTriggers == 3    \* Spec: number of trigger calls in a run
MaxFound == 1       \* Spec: the proposition search returns 0..MaxFound rows
MaxCand == 2        \* Spec: the completion service returns 0..MaxCand candidates
MaxLen == 3         \* Spec: a completion text has at most MaxLen tokens
MaxScored == 1      \* Spec: a scoring answer has at most MaxScored entries
MaxList == 6        \* SpecPure: a function is given lists of 0..MaxList items
MaxSugg == 3        \* SpecPure: deduplication and selection with called-for
                    \* limits get lists of 0..MaxSugg suggestions
MaxPrio == 2        \* SpecPure: priorities 1..MaxPrio, in tenths
MaxParam == 2       \* SpecPure: max_suggestions, max_per_category in 1..MaxParam
MaxFacts == 1        \* SpecPure: create_bundles finds 0..MaxFacts facts
MaxInfs == 3         \* SpecPure: and 0..MaxInfs inferences
MaxWords == 11       \* SpecPure: texts of 0..MaxWords distinct keywords
MaxGrid == 2         \* SpecPure: each score takes MaxGrid + 1 levels of its range
MaxMonitors == 2     \* SpecBuffer: monitors 1..MaxMonitors
MaxAdded == 4        \* SpecBuffer: add_frame is called at most MaxAdded times per monitor
MaxBufferSize == 4   \* SpecBuffer: max_buffer_size of the manager

\* ------------------------------------------------------- program constants
GumboCapacity == 2      \* GumboRateLimiter: capacity=2
GumboRefillRate == 1    \* GumboRateLimiter: 1 token per minute; a tick is
                        \* 60/TokenUnit seconds, so 1 unit per tick

ContextLimit == 10      \* _contextual_retrieval: related_propositions[:10]
BatchLimit == 5         \* _score_suggestions: final_suggestions[:5]
MaxSuggestions == 8     \* select_diverse_suggestions: max_suggestions = 8
MaxPerCategory == 3     \* select_diverse_suggestions: max_per_category = 3
MaxBundles == 15        \* create_bundles: max_bundles = 15
RelevanceThreshold == 100  \* relevance > 0.1, in thousandths
RelatedLimit == 5       \* _find_related_inferences: related[:5]
BundleInferences == 3   \* create_bundles: related_inferences[:3]
KeywordLimit == 10      \* _extract_keywords: most_common(10)
ActivityThreshold == 3   \* BufferManager: activity_threshold = 3

Threads == 1..NumThreads

VARIABLES
    \* TokenBucketRateLimiter
    capacity,       \* self.capacity (whole tokens)
    refill_rate,    \* self.refill_rate (units per tick)
    tokens,         \* self._tokens (units)
    last_refill,    \* self._last_refill (tick)
    now,            \* the wall clock, datetime.now(timezone.utc)
    tpc,            \* per thread: the bucket call it is inside, if any
    ret,            \* what the bucket call that completed last returned
    \* history of the bucket since construction or the last reset()
    refilled,       \* units credited by _refill_tokens
    granted,        \* units handed out by acquire calls that returned True
    \* GumboEngine.trigger_gumbo_suggestions, one call at a time
    pc,             \* the step the trigger call is at
    trig,           \* number of trigger calls so far; the batch_id of this one
    ctx,            \* context_result
    candidates,     \* suggestions (the raw candidates)
    batch,          \* batch
    ids,            \* suggestion_ids collected by _save_suggestions_to_database
    pending,        \* rows flushed in the session and not committed
    dbRows,         \* committed rows of the suggestions table
    metrics,        \* self._suggestion_metrics
    sse,            \* the event this call handed to the SSE manager last
    mresult,        \* what GumboEngine.trigger_gumbo_suggestions returned
    result,         \* what the entry point trigger_gumbo_suggestions returned
    \* history of the trigger calls
    run,            \* what happened in the current trigger call
    batchLen,       \* batch_id -> number of suggestions of that batch
    seen,           \* outcome -> kind of value last returned with it
    \* a single caller of the bucket, and function calls taken alone
    hist,           \* what the single caller has seen since the bucket was full
    pure,           \* a function call: its name, its argument, what it returned
    \* the frame buffers
    bm              \* the BufferManager: its dictionaries, its lock, its tasks

triggerVars == <<pc, trig, ctx, candidates, batch, ids, pending, dbRows,
                 metrics, sse, mresult, result, run, batchLen, seen>>

bucketVars == <<capacity, refill_rate, tokens, last_refill, now, tpc, ret,
                refilled, granted>>

harnessVars == <<hist, pure, bm>>

Monitors == 1..MaxMonitors

\* BufferManager.__init__, buffer_manager.py lines 39-82, with no task running.
NewManager ==
    [keys |-> <<>>,
     buffers |-> [m \in Monitors |-> 0],
     buffer_timers |-> {},
     recent_events |-> [m \in Monitors |-> 0],
     lock |-> "free",
     pc |-> [add |-> "idle", timer |-> "idle", flush_all |-> "idle",
             cleanup |-> "idle"],
     todo |-> <<>>,
     sent |-> [m \in Monitors |-> 0],
     added |-> [m \in Monitors |-> 0]]

\* No single caller, no function call.
NoHist == [on |-> FALSE]

NoPure == [fn |-> "none"]

Min(a, b) == IF a <= b THEN a ELSE b

Max(a, b) == IF a >= b THEN a ELSE b

\* ------------------------------------------------ TokenBucketRateLimiter

\* A refill without the min against the capacity.
RefillNoClamp(cap, rate, tok, elapsed) == tok + elapsed * rate

\* _refill_tokens, line 95: the token count after crediting `elapsed` ticks.

RefilledTokens(cap, rate, tok, elapsed) ==
    Min(cap * TokenUnit, tok + elapsed * rate)

\* A refill that credits the elapsed time and keeps the old stamp.
RefillKeepsStamp(cap, rate, tok, last, t) ==
    LET elapsed == t - last IN
    IF elapsed > 0
    THEN <<RefilledTokens(cap, rate, tok, elapsed), last>>
    ELSE <<tok, last>>

\* _refill_tokens as a whole: the new <<tokens, last_refill>>.

RefillTokens(cap, rate, tok, last, t) ==
    LET elapsed == t - last IN
    IF elapsed > 0
    THEN <<RefilledTokens(cap, rate, tok, elapsed), t>>
    ELSE <<tok, last>>

\* An acquire whose check does not see the count it decrements.
HasTokensAlways(tok, n) == TRUE

\* acquire, line 114: may n whole tokens be taken from tok units?

HasTokens(tok, n) == tok >= n * TokenUnit

\* An acquire that returns True without taking the tokens.
TakeNothing(tok, n) == tok

\* acquire, line 115: the token count after taking n whole tokens.

TakeTokens(tok, n) == tok - n * TokenUnit

\* A wait time computed for half the missing tokens.
HalfTokensNeeded(tok) ==
    IF tok >= TokenUnit THEN 0 ELSE (TokenUnit - tok) \div 2

\* get_wait_time lines 132-139 / get_status lines 151-154: the units still
\* missing for one whole token; the wait is that many units / refill_rate
\* ticks, infinite when refill_rate = 0.
TokensNeeded(tok) == IF tok >= TokenUnit THEN 0 ELSE TokenUnit - tok

\* ----- what a single caller of the bucket has seen (history, no program state)
\* from: how the bucket became full; clean: no time has elapsed and nothing
\* but acquire(1) has taken tokens since then; seq: the results of the
\* acquire(1) calls since then; waited/need/at: get_wait_time returned
\* need / refill_rate at time `at` and no acquire was called since; due: the
\* acquire(1) begun ("begun") or completed last ("done") started at least
\* that long after `at`; lazy/began: the token count and the refill stamp
\* that the refill of the acquire call in progress left.
FullHist(how) ==
    [on |-> TRUE, from |-> how, clean |-> TRUE, seq |-> <<>>,
     waited |-> FALSE, need |-> 0, at |-> 0, due |-> "no",
     lazy |-> 0, began |-> 0]

Saw(h) ==
    /\ hist' = IF hist.on THEN h ELSE hist
    /\ UNCHANGED <<pure, bm>>

\* The caller starts a call: what the completed acquire left is forgotten.
Forgot(h) ==
    IF h.due = "done" THEN [h EXCEPT !.due = "no", !.need = 0, !.at = 0] ELSE h

SawAcquireBegin ==
    LET h == Forgot(hist)
        r == RefillTokens(capacity, refill_rate, tokens, last_refill, now)
    IN
    Saw([h EXCEPT !.due =
            IF h.waited /\ refill_rate > 0
                        /\ (now - h.at) * refill_rate >= h.need
            THEN "begun" ELSE "no",
            !.lazy = r[1],
            !.began = r[2]])

SawAcquire(n, ok) ==
    LET served == hist.due = "begun" /\ n = 1 IN
    Saw([hist EXCEPT
            !.waited = FALSE,
            !.due = IF served THEN "done" ELSE "no",
            !.need = IF served THEN hist.need ELSE 0,
            !.at = IF served THEN hist.at ELSE 0,
            !.lazy = 0,
            !.began = 0,
            !.clean = hist.clean /\ (n = 1 \/ ~ok),
            !.seq = IF hist.clean /\ n = 1
                    THEN (IF Len(hist.seq) <= MaxCapacity
                          THEN Append(hist.seq, ok) ELSE hist.seq)
                    ELSE IF hist.clean /\ ~ok THEN hist.seq ELSE <<>>])

SawWait(r) ==
    Saw([hist EXCEPT !.waited = TRUE, !.need = r.need, !.at = now])

SawTick == Saw([hist EXCEPT !.clean = FALSE, !.seq = <<>>])

NoRet == [op |-> "none", ok |-> FALSE, need |-> 0, inf |-> FALSE, avail |-> 0]

WaitRet(rate, tok) ==
    [op |-> "get_wait_time", ok |-> TRUE, need |-> TokensNeeded(tok),
     inf |-> (tok < TokenUnit /\ rate = 0), avail |-> 0]

StatusRet(rate, tok) ==
    [op |-> "get_status", ok |-> (tok < TokenUnit), need |-> TokensNeeded(tok),
     inf |-> (tok < TokenUnit /\ rate = 0), avail |-> tok \div TokenUnit]

AcquireRet(b) ==
    [op |-> "acquire", ok |-> b, need |-> 0, inf |-> FALSE, avail |-> 0]

\* The first lock section of acquire / get_wait_time / get_status, and the
\* whole of one pass of _refill_worker: self._refill_tokens().
DoRefill ==
    LET r == RefillTokens(capacity, refill_rate, tokens, last_refill, now) IN
    /\ tokens' = r[1]
    /\ last_refill' = r[2]
    /\ refilled' = refilled + (r[1] - tokens)

\* acquire(n) with n <= 0, lines 108-109: returns True at once.
AcquireNothing(t, n) ==
    /\ tpc[t] = "idle"
    /\ n <= 0
    /\ ret' = AcquireRet(TRUE)
    /\ UNCHANGED <<capacity, refill_rate, tokens, last_refill, now, tpc,
                   refilled, granted>>
    /\ UNCHANGED triggerVars
    /\ UNCHANGED harnessVars

\* acquire(n) with n > 0, line 111: the refill runs in a lock section of its
\* own.  The refill does not read n, so the model draws n in AcquireTake.
AcquireBegin(t) ==
    /\ tpc[t] = "idle"
    /\ DoRefill
    /\ tpc' = [tpc EXCEPT ![t] = "acquire"]
    /\ UNCHANGED <<capacity, refill_rate, now, ret, granted>>
    /\ UNCHANGED triggerVars
    /\ SawAcquireBegin

\* acquire(n) with n > 0, lines 113-120: the check and the decrement, in one
\* lock section.
AcquireTake(t, n) ==
    /\ tpc[t] = "acquire"
    /\ n > 0
    /\ IF HasTokens(tokens, n)
       THEN /\ tokens' = TakeTokens(tokens, n)
            /\ granted' = granted + n * TokenUnit
            /\ ret' = AcquireRet(TRUE)
       ELSE /\ ret' = AcquireRet(FALSE)
            /\ UNCHANGED <<tokens, granted>>
    /\ SawAcquire(n, HasTokens(tokens, n))
    /\ tpc' = [tpc EXCEPT ![t] = "idle"]
    /\ UNCHANGED <<capacity, refill_rate, last_refill, now, refilled>>
    /\ UNCHANGED triggerVars

\* get_wait_time, line 129.
WaitBegin(t) ==
    /\ tpc[t] = "idle"
    /\ DoRefill
    /\ tpc' = [tpc EXCEPT ![t] = "get_wait_time"]
    /\ UNCHANGED <<capacity, refill_rate, now, ret, granted>>
    /\ UNCHANGED triggerVars
    /\ Saw(Forgot(hist))

\* get_wait_time, lines 131-139.
WaitRead(t) ==
    /\ tpc[t] = "get_wait_time"
    /\ ret' = WaitRet(refill_rate, tokens)
    /\ tpc' = [tpc EXCEPT ![t] = "idle"]
    /\ UNCHANGED <<capacity, refill_rate, tokens, last_refill, now, refilled,
                   granted>>
    /\ UNCHANGED triggerVars
    /\ SawWait(WaitRet(refill_rate, tokens))

\* get_status, line 148.
StatusBegin(t) ==
    /\ tpc[t] = "idle"
    /\ DoRefill
    /\ tpc' = [tpc EXCEPT ![t] = "get_status"]
    /\ UNCHANGED <<capacity, refill_rate, now, ret, granted>>
    /\ UNCHANGED triggerVars
    /\ Saw(Forgot(hist))

\* get_status, lines 150-165.
StatusRead(t) ==
    /\ tpc[t] = "get_status"
    /\ ret' = StatusRet(refill_rate, tokens)
    /\ tpc' = [tpc EXCEPT ![t] = "idle"]
    /\ UNCHANGED <<capacity, refill_rate, tokens, last_refill, now, refilled,
                   granted>>
    /\ UNCHANGED triggerVars
    /\ UNCHANGED harnessVars

\* reset, lines 167-172.  The history restarts with the full bucket.
Reset(t) ==
    /\ tpc[t] = "idle"
    /\ tokens' = capacity * TokenUnit
    /\ last_refill' = now
    /\ refilled' = 0
    /\ granted' = 0
    /\ UNCHANGED <<capacity, refill_rate, now, tpc, ret>>
    /\ UNCHANGED triggerVars
    /\ Saw(FullHist("reset"))

\* One pass of _refill_worker, lines 79-81.
RefillWorker ==
    /\ DoRefill
    /\ UNCHANGED <<capacity, refill_rate, now, tpc, ret, granted>>
    /\ UNCHANGED triggerVars
    /\ UNCHANGED harnessVars

\* The wall clock advances.
Tick ==
    /\ now < MaxTime
    /\ now' = now + 1
    /\ UNCHANGED <<capacity, refill_rate, tokens, last_refill, tpc, ret,
                   refilled, granted>>
    /\ UNCHANGED triggerVars
    /\ SawTick

\* __init__, lines 40-47, for any capacity and refill rate.
BucketInit ==
    /\ capacity \in 1..MaxCapacity
    /\ refill_rate \in 0..MaxRate
    /\ tokens = capacity * TokenUnit
    /\ last_refill = 0
    /\ now = 0
    /\ tpc = [t \in Threads |-> "idle"]
    /\ ret = NoRet
    /\ refilled = 0
    /\ granted = 0

BucketNext ==
    \/ \E t \in Threads, n \in (0 - 1)..0 : AcquireNothing(t, n)
    \/ \E t \in Threads : AcquireBegin(t)
    \/ \E t \in Threads, n \in 1..MaxAcquire : AcquireTake(t, n)
    \/ \E t \in Threads : WaitBegin(t)
    \/ \E t \in Threads : WaitRead(t)
    \/ \E t \in Threads : StatusBegin(t)
    \/ \E t \in Threads : StatusRead(t)
    \/ \E t \in Threads : Reset(t)
    \/ RefillWorker
    \/ Tick

\* ------------------------------------------------------- completion texts
\* A completion text is a short sequence of tokens: "txt" is any text without
\* braces (prose, a code fence), "{" and "}" are braces, "key" is the member
\* with the expected key ("suggestions": ... / "scored_suggestions": ...) and
\* "oth" a member with any other key.  The value of the "key" member, the
\* payload, is drawn apart from the text.
Tokens == {"txt", "{", "}", "key", "oth"}

Texts == UNION {[1..k -> Tokens] : k \in 0..MaxLen}

CallOutcomes == {"ok", "timeout", "error"}

\* str.find: the first position of c, 0 when absent (python: -1).
Find(text, c) ==
    IF \E i \in 1..Len(text) : text[i] = c
    THEN CHOOSE i \in 1..Len(text) :
            text[i] = c /\ \A j \in 1..(i - 1) : text[j] # c
    ELSE 0

\* str.rfind: the last position of c, 0 when absent.
RFind(text, c) ==
    IF \E i \in 1..Len(text) : text[i] = c
    THEN CHOOSE i \in 1..Len(text) :
            text[i] = c /\ \A j \in (i + 1)..Len(text) : text[j] # c
    ELSE 0

\* json.loads(response[start_idx:end_idx+1]) accepts the slice: it is an
\* object, a "{", members, a "}".  An empty slice (the last "}" before the
\* first "{") and a slice with text or braces inside are refused.
IsJsonObject(text, s, e) ==
    /\ s < e
    /\ \A i \in (s + 1)..(e - 1) : text[i] \in {"key", "oth"}

\* _parse_json_response, lines 596-622, by the branch it takes.
ParseClass(text) ==
    LET s == Find(text, "{")
        e == RFind(text, "}")
    IN  IF s = 0 \/ e = 0 THEN "no_json"
        ELSE IF ~IsJsonObject(text, s, e) THEN "decode_error"
        ELSE IF \E i \in (s + 1)..(e - 1) : text[i] = "key" THEN "has_key"
        ELSE "missing_key"

\* A payload is null or a list: [null, items].
EmptyList == [null |-> FALSE, items |-> <<>>]

NullValue == [null |-> TRUE, items |-> <<>>]

\* _parse_json_response followed by .get(expected_key, []): the payload when
\* the text parses and has the key, [] in every other case.
ParseJsonResponse(text, payload) ==
    IF ParseClass(text) = "has_key" THEN payload ELSE EmptyList

\* What asyncio.wait_for(text_completion(...), timeout=30.0) comes to: a
\* timeout, an exception, or a text with the payload of its "key" member.
\* The code reads the payload only of a text that parses and has the key
\* (ParseJsonResponse), so the other texts come with one payload, [].
Failure(c) == [call |-> c, text |-> <<>>, payload |-> EmptyList]

Answers(payloads) ==
    {Failure("timeout"), Failure("error")} \cup
    {[call |-> "ok", text |-> t, payload |-> EmptyList] :
        t \in {x \in Texts : ParseClass(x) # "has_key"}} \cup
    {[call |-> "ok", text |-> t, payload |-> p] :
        t \in {x \in Texts : ParseClass(x) = "has_key"}, p \in payloads}

\* ----------------------------------------------- _generate_suggestion_candidates
FallbackTitle == "Review recent behavioral patterns"

\* lines 466-474
FallbackCandidate == [kind |-> "dict", title |-> FallbackTitle]

\* A candidate of the completion service: a JSON object (kind "dict") or any
\* other JSON value, a string say (kind "str").
\* Its title stands for its title and description.
LlmCandidate(k, t) == [kind |-> k, title |-> t]

TitleNames == <<"t1", "t2", "t3", "t4", "t5", "t6", "t7", "t8", "t9", "t10">>

Title(i) == TitleNames[i]

\* The candidates of one answer are all objects or all strings, and their
\* titles are all different or all the same.
GenPayloads ==
    {NullValue} \cup
    {[null |-> FALSE,
      items |-> [i \in 1..n |-> LlmCandidate(k, IF same THEN Title(1)
                                                ELSE Title(i))]] :
        n \in 0..MaxCand, k \in {"dict", "str"}, same \in BOOLEAN}

GenAnswers == Answers(GenPayloads)

\* A generator whose except branch returns an empty list.
NoFallback == <<>>

\* The except branch, lines 463-474.
GenerationFallback == <<FallbackCandidate>>

\* lines 432-474: call is the outcome of asyncio.wait_for(text_completion).
\* len(None) raises TypeError, which the except branch catches as well.
GenerateSuggestionCandidates(call, text, payload) ==
    IF call # "ok" THEN GenerationFallback
    ELSE LET v == ParseJsonResponse(text, payload) IN
         IF v.null THEN GenerationFallback ELSE v.items

\* ----------------------------------------------------------- _score_suggestions
\* Utilities are in units of 0.00001: benefit, costs and decay are in tenths
\* and probabilities in hundredths, so that
\* (benefit*p_useful - fp_cost*p_fp - fn_cost*p_fn) * (decay/10) is the
\* integer below.
FallbackUtility == 500000       \* expected_utility = 5.0

FallbackProbability == 50       \* p_useful = 0.5

\* The scores an entry of "scored_suggestions" carries: "low" is the example
\* of the prompt (lines 143-152), "high" a better one, "invalid" one with
\* probability_useful = 1.5, which UtilityScores refuses.
ScoreOf(kind) ==
    CASE kind = "low" ->
            [benefit |-> 85, fp_cost |-> 20, fn_cost |-> 60, decay |-> 70,
             p_useful |-> 85, p_fp |-> 15, p_fn |-> 10]
      [] kind = "high" ->
            [benefit |-> 90, fp_cost |-> 10, fn_cost |-> 10, decay |-> 100,
             p_useful |-> 90, p_fp |-> 10, p_fn |-> 10]
      [] OTHER ->
            [benefit |-> 85, fp_cost |-> 20, fn_cost |-> 60, decay |-> 70,
             p_useful |-> 150, p_fp |-> 15, p_fn |-> 10]

EntryKinds == {"low", "high", "invalid"}

\* "index" is 0-based in the answer; MaxCand is an index no candidate has.
Entries == [index : 0..MaxCand, kind : EntryKinds]

ScorePayloads ==
    {NullValue} \cup
    {[null |-> FALSE, items |-> e] :
        e \in UNION {[1..k -> Entries] : k \in 0..MaxScored}}

ScoreAnswers == Answers(ScorePayloads)

\* The costs weighed positively and the benefit negatively.
UtilityOfCosts(sc) ==
    (sc.fp_cost * sc.p_fp + sc.fn_cost * sc.p_fn - sc.benefit * sc.p_useful)
        * sc.decay

\* lines 534-538
ExpectedUtility(sc) ==
    (sc.benefit * sc.p_useful - sc.fp_cost * sc.p_fp - sc.fn_cost * sc.p_fn)
        * sc.decay

\* UtilityScores / SuggestionData field constraints (suggestion_models.py).
ValidScores(sc) ==
    /\ sc.benefit \in 0..100 /\ sc.fp_cost \in 0..100
    /\ sc.fn_cost \in 0..100 /\ sc.decay \in 0..100
    /\ sc.p_useful \in 0..100 /\ sc.p_fp \in 0..100 /\ sc.p_fn \in 0..100

\* lines 516-520: the first entry whose "index" is i (0-based), 0 if none.
FirstMatch(entries, i) ==
    LET S == {j \in 1..Len(entries) : entries[j].index = i} IN
    IF S = {} THEN 0 ELSE CHOOSE j \in S : \A k \in S : j <= k

\* lines 549-553 and 582-589
FallbackScored(cand) ==
    [title |-> cand.title, eu |-> FallbackUtility, pu |-> FallbackProbability,
     scored |-> FALSE]

\* lines 522-564 for the candidate at position i (1-based) of the list.
ScoreOne(cand, entries, i) ==
    LET m == FirstMatch(entries, i - 1) IN
    IF m = 0 THEN FallbackScored(cand)
    ELSE LET sc == ScoreOf(entries[m].kind) IN
         [title |-> cand.title, eu |-> ExpectedUtility(sc),
          pu |-> sc.p_useful, scored |-> TRUE]

\* Does scoring the candidate at position i raise?  A candidate that is no
\* dict has no .get; scores out of range fail validation.
ScoreOneRaises(cand, entries, i) ==
    LET m == FirstMatch(entries, i - 1) IN
    \/ cand.kind # "dict"
    \/ m # 0 /\ ~ValidScores(ScoreOf(entries[m].kind))

\* list.sort(key=expected_utility, reverse=True), line 569: a stable sort.
InsertDesc(x, s) ==
    LET n == Cardinality({j \in 1..Len(s) : s[j].eu >= x.eu}) IN
    SubSeq(s, 1, n) \o <<x>> \o SubSeq(s, n + 1, Len(s))

RECURSIVE SortPrefix(_, _)
SortPrefix(seq, k) ==
    IF k = 0 THEN <<>> ELSE InsertDesc(seq[k], SortPrefix(seq, k - 1))

SortDesc(seq) == SortPrefix(seq, Len(seq))

\* seq[:n]
Prefix(seq, n) == SubSeq(seq, 1, Min(n, Len(seq)))

\* The try branch, lines 491-574, raises.
MainScoringRaises(cands, call, text, payload) ==
    \/ call # "ok"
    \/ ParseJsonResponse(text, payload).null
    \/ \E i \in 1..Len(cands) :
          ScoreOneRaises(cands[i], ParseJsonResponse(text, payload).items, i)

\* The try branch, lines 511-574.
MainScoring(cands, text, payload) ==
    LET entries == ParseJsonResponse(text, payload).items
        final == [i \in 1..Len(cands) |-> ScoreOne(cands[i], entries, i)]
    IN  Prefix(SortDesc(final), BatchLimit)

\* An except branch that scores the candidates with their positions as
\* utilities.
FallbackScoringByPosition(cands) ==
    LET first == Prefix(cands, BatchLimit) IN
    [i \in 1..Len(first) |->
        [title |-> first[i].title, eu |-> i, pu |-> FallbackProbability,
         scored |-> FALSE]]

\* The except branch, lines 576-592; it raises on a candidate that is no dict.
FallbackScoringRaises(cands) ==
    \E i \in 1..Len(Prefix(cands, BatchLimit)) : cands[i].kind # "dict"

FallbackScoring(cands) ==
    LET first == Prefix(cands, BatchLimit) IN
    [i \in 1..Len(first) |-> FallbackScored(first[i])]

\* _score_suggestions as a whole: [raised, list].
ScoreSuggestions(cands, call, text, payload) ==
    IF cands = <<>> THEN [raised |-> FALSE, list |-> <<>>]
    ELSE IF ~MainScoringRaises(cands, call, text, payload)
    THEN [raised |-> FALSE, list |-> MainScoring(cands, text, payload)]
    ELSE IF FallbackScoringRaises(cands)
    THEN [raised |-> TRUE, list |-> <<>>]
    ELSE [raised |-> FALSE, list |-> FallbackScoring(cands)]

\* -------------------------------------------------------- _contextual_retrieval
\* The except branch, lines 412-420.
FallbackContext ==
    [related |-> 0, total_found |-> 0, query |-> "fallback_query"]

\* A retrieval whose except branch reports the rows found.
RetrievalNoFallback(qcall, scall, found, hasTrigger) ==
    [related |-> Min(ContextLimit, found), total_found |-> found,
     query |-> "query"]

\* lines 358-420: qcall is the outcome of the query completion, scall of
\* search_propositions_bm25, found the number of rows it returns and
\* hasTrigger whether the trigger proposition is one of them.
ContextualRetrieval(qcall, scall, found, hasTrigger) ==
    IF qcall # "ok" \/ scall # "ok" THEN FallbackContext
    ELSE [related |-> Min(ContextLimit,
                          IF hasTrigger THEN found - 1 ELSE found),
          total_found |-> found, query |-> "query"]

\* ------------------------------------------------------------------ the batch
NoBatch == [suggestions |-> <<>>, context_used |-> 0, batch_id |-> 0]

\* lines 289-297
MakeBatch(list, c, id) ==
    [suggestions |-> list, context_used |-> c.related, batch_id |-> id]

\* ----------------------------------------------------- values a trigger returns
PendingResult == [kind |-> "pending", batch |-> NoBatch]

\* return None
NoneResult == [kind |-> "none", batch |-> NoBatch]

\* return batch
BatchResult(b) == [kind |-> "batch", batch |-> b]

\* an exception leaves the call
RaisedResult == [kind |-> "raised", batch |-> NoBatch]

\* A trigger that returns the batch only when rows were stored.
TriggerReturnIfSaved(b, idlist) ==
    IF idlist = <<>> THEN NoneResult ELSE BatchResult(b)

\* line 313, return batch: the batch whatever suggestion_ids holds.

TriggerReturn(b, idlist) == BatchResult(b)

\* An except branch that raises again.
TriggerReraises == RaisedResult

\* An except branch that returns an empty batch.
TriggerReturnsEmpty == BatchResult(NoBatch)

\* GumboEngine.trigger_gumbo_suggestions, lines 315-330: the except branch
\* logs, broadcasts an error event and returns None.

TriggerExcept == NoneResult

\* The entry point trigger_gumbo_suggestions, lines 797-802: whatever the
\* engine raises is logged and None is returned.
EntryPoint(m) == IF m.kind = "raised" THEN NoneResult ELSE m

\* ------------------------------------------------------ the suggestions table
Row(id, i) == [batch_id |-> id, idx |-> i, delivered |-> FALSE]

RowKey(id, i) == [batch_id |-> id, idx |-> i]

Range(seq) == {seq[i] : i \in 1..Len(seq)}

\* A flush that commits.
FlushCommits(rows, pend) == rows \cup Range(pend)

\* session.flush(), line 657: the row is written inside the transaction; the
\* committed table, the one other sessions read, is as before.

AfterFlush(rows, pend) == rows

\* session.commit(), line 660
AfterCommit(rows, pend) == rows \cup Range(pend)

\* session.rollback(), line 667: what is left of the pending rows.
AfterRollback(pend) == <<>>

\* the list returned by the except branch, line 668
SaveFailedIds(collected) == <<>>

\* _mark_suggestions_delivered, lines 680-687
MarkDelivered(rows, keys) ==
    {IF RowKey(r.batch_id, r.idx) \in Range(keys)
     THEN [r EXCEPT !.delivered = TRUE] ELSE r : r \in rows}

\* A refusal that is not counted.
HitNotCounted(m) == m

\* line 258

HitCounted(m) == [m EXCEPT !.rate_limit_hits = @ + 1]

\* _update_metrics, lines 626-627
UpdateMetrics(m, b) ==
    [m EXCEPT !.total_suggestions = @ + Len(b.suggestions),
              !.total_batches = @ + 1]

\* ------------------------------------------------ trigger_gumbo_suggestions
NoEvent == [event |-> "none", id |-> 0, wait |-> 0]

NewRun ==
    [gate |-> "none", wait |-> 0, steps |-> {}, n |-> 0, retr |-> "none",
     gen |-> "none", score |-> "none", save |-> "none", saveAt |-> 0,
     sent |-> FALSE, hits0 |-> metrics.rate_limit_hits, outcome |-> "none"]

\* The outcomes a caller may want to tell apart.
OutcomeClass(o) ==
    CASE o = "deferred" -> "deferred"
      [] o = "persisted" -> "produced"
      [] OTHER -> "failed"

\* The call returns m.
Return(m, o, r) ==
    /\ mresult' = m
    /\ result' = EntryPoint(m)
    /\ pc' = "returned"
    /\ run' = [r EXCEPT !.outcome = o]
    /\ seen' = [seen EXCEPT ![OutcomeClass(o)] = EntryPoint(m).kind]

\* The history of the call after one more step; the named steps are the
\* pipeline steps.
Count(r) == [r EXCEPT !.n = @ + 1]

Step(name) == [run EXCEPT !.steps = @ \cup {name}, !.n = @ + 1]

\* lines 244-251: a new call; its locals are fresh.
TriggerStart ==
    /\ pc \in {"idle", "returned"}
    /\ trig < MaxTriggers
    /\ trig' = trig + 1
    /\ pc' = "rate_check"
    /\ ctx' = FallbackContext
    /\ candidates' = <<>>
    /\ batch' = NoBatch
    /\ ids' = <<>>
    /\ mresult' = PendingResult
    /\ result' = PendingResult
    /\ sse' = NoEvent
    /\ run' = NewRun
    /\ UNCHANGED <<pending, dbRows, metrics, batchLen, seen>>
    /\ UNCHANGED bucketVars
    /\ UNCHANGED harnessVars

\* line 254: can_generate_suggestions() is token_bucket.acquire(1).  acquire
\* has no await, so within the event loop it runs as one step.
RateCheck ==
    /\ pc = "rate_check"
    /\ LET r == RefillTokens(capacity, refill_rate, tokens, last_refill, now) IN
       /\ last_refill' = r[2]
       /\ refilled' = refilled + (r[1] - tokens)
       /\ IF HasTokens(r[1], 1)
          THEN /\ tokens' = TakeTokens(r[1], 1)
               /\ granted' = granted + TokenUnit
               /\ ret' = AcquireRet(TRUE)
               /\ pc' = "get_trigger"
               /\ run' = [Count(run) EXCEPT !.gate = "passed"]
          ELSE /\ tokens' = r[1]
               /\ granted' = granted
               /\ ret' = AcquireRet(FALSE)
               /\ pc' = "rate_denied"
               /\ run' = [Count(run) EXCEPT !.gate = "denied"]
    /\ UNCHANGED <<capacity, refill_rate, now, tpc>>
    /\ UNCHANGED <<trig, ctx, candidates, batch, ids, pending, dbRows, metrics,
                   sse, mresult, result, batchLen, seen>>
    /\ UNCHANGED harnessVars

\* lines 255-271: get_wait_time(), the counter, the rate_limited event, and
\* return None.  sent: the SSE manager took the event (_broadcast_sse_event
\* swallows its failure).
RateDenied(sent) ==
    /\ pc = "rate_denied"
    /\ LET r == RefillTokens(capacity, refill_rate, tokens, last_refill, now)
           w == WaitRet(refill_rate, r[1])
       IN  /\ tokens' = r[1]
           /\ last_refill' = r[2]
           /\ refilled' = refilled + (r[1] - tokens)
           /\ ret' = w
           /\ metrics' = HitCounted(metrics)
           /\ sse' = IF sent
                     THEN [event |-> "rate_limited", id |-> trig,
                           wait |-> w.need]
                     ELSE sse
           /\ Return(NoneResult, "deferred",
                     [Count(run) EXCEPT !.wait = w.need, !.sent = sent])
    /\ UNCHANGED <<capacity, refill_rate, now, tpc, granted>>
    /\ UNCHANGED <<trig, ctx, candidates, batch, ids, pending, dbRows,
                   batchLen>>
    /\ UNCHANGED harnessVars

\* A trigger that finds no proposition hands its token back.
GetTriggerRefunds(found) ==
    /\ pc = "get_trigger"
    /\ IF found = "found"
       THEN /\ pc' = "retrieve"
            /\ run' = Count(run)
            /\ UNCHANGED <<mresult, result, seen, tokens>>
       ELSE /\ Return(NoneResult, "not_found", Count(run))
            /\ tokens' = tokens + TokenUnit
    /\ UNCHANGED <<trig, ctx, candidates, batch, ids, pending, dbRows, metrics,
                   sse, batchLen>>
    /\ UNCHANGED <<capacity, refill_rate, last_refill, now, tpc, ret, refilled,
                   granted>>
    /\ UNCHANGED harnessVars

\* lines 273-277 with _get_trigger_proposition, lines 338-344: the row is
\* found, is not there, or the query raises (caught, None).
GetTrigger(found) ==
    /\ pc = "get_trigger"
    /\ IF found = "found"
       THEN /\ pc' = "retrieve"
            /\ run' = Count(run)
            /\ UNCHANGED <<mresult, result, seen>>
       ELSE Return(NoneResult, "not_found", Count(run))
    /\ UNCHANGED <<trig, ctx, candidates, batch, ids, pending, dbRows, metrics,
                   sse, batchLen>>
    /\ UNCHANGED bucketVars
    /\ UNCHANGED harnessVars

\* line 280
Retrieve(qcall, scall, found, hasTrigger) ==
    /\ pc = "retrieve"
    /\ hasTrigger => found >= 1
    /\ ctx' = ContextualRetrieval(qcall, scall, found, hasTrigger)
    /\ pc' = "generate"
    /\ run' = [Step("retrieve") EXCEPT
                  !.retr = IF qcall # "ok" \/ scall # "ok" THEN "failed"
                           ELSE "ok"]
    /\ UNCHANGED <<trig, candidates, batch, ids, pending, dbRows, metrics, sse,
                   mresult, result, batchLen, seen>>
    /\ UNCHANGED bucketVars
    /\ UNCHANGED harnessVars

GenClass(call, text) ==
    IF call # "ok" THEN "failed"
    ELSE IF ParseClass(text) \in {"no_json", "decode_error"} THEN "unparseable"
    ELSE "ok"

\* What _generate_suggestion_candidates makes of the answer a.
GenOutcome(a) ==
    [cands |-> GenerateSuggestionCandidates(a.call, a.text, a.payload),
     gen |-> GenClass(a.call, a.text)]

\* Every outcome of the generation step, over all answers.
GenOutcomes == {GenOutcome(a) : a \in GenAnswers}

\* line 283
Generate(o) ==
    /\ pc = "generate"
    /\ candidates' = o.cands
    /\ pc' = "score"
    /\ run' = [Step("generate") EXCEPT !.gen = o.gen]
    /\ UNCHANGED <<trig, ctx, batch, ids, pending, dbRows, metrics, sse,
                   mresult, result, batchLen, seen>>
    /\ UNCHANGED bucketVars
    /\ UNCHANGED harnessVars

ScoreClass(cands, call) ==
    IF cands = <<>> THEN "skipped"
    ELSE IF call # "ok" THEN "failed" ELSE "ok"

\* What _score_suggestions makes of the candidates and the answer a.
ScoreOutcome(cands, a) ==
    [s |-> ScoreSuggestions(cands, a.call, a.text, a.payload),
     score |-> ScoreClass(cands, a.call)]

\* The candidate lists the generation step can hand to scoring.
CandidateLists == {o.cands : o \in GenOutcomes}

\* Every outcome of the scoring step, over all answers, per candidate list.
ScoreOutcomes ==
    [c \in CandidateLists |-> {ScoreOutcome(c, a) : a \in ScoreAnswers}]

\* lines 286-297: scoring, then the batch is built.  When the except branch
\* of _score_suggestions raises, control goes to the except branch of
\* trigger_gumbo_suggestions.  The locals context_result and suggestions are
\* not read after this step; the model forgets them here.
Score(o) ==
    /\ pc = "score"
    /\ LET s == o.s
           r == [Step("score") EXCEPT !.score = o.score]
       IN  IF s.raised
           THEN /\ pc' = "failing"
                /\ run' = r
                /\ UNCHANGED <<batch, batchLen>>
           ELSE /\ pc' = "save"
                /\ run' = r
                /\ batch' = MakeBatch(s.list, ctx, trig)
                /\ batchLen' = [batchLen EXCEPT ![trig] = Len(s.list)]
    /\ ctx' = FallbackContext
    /\ candidates' = <<>>
    /\ UNCHANGED <<trig, ids, pending, dbRows, metrics, sse, mresult, result,
                   seen>>
    /\ UNCHANGED bucketVars
    /\ UNCHANGED harnessVars

\* lines 315-330: the error event, and return None.
Failing(sent) ==
    /\ pc = "failing"
    /\ sse' = IF sent THEN [event |-> "error", id |-> trig, wait |-> 0]
              ELSE sse
    /\ Return(TriggerExcept, "crashed", [Count(run) EXCEPT !.sent = sent])
    /\ UNCHANGED <<trig, ctx, candidates, batch, ids, pending, dbRows, metrics,
                   batchLen>>
    /\ UNCHANGED bucketVars
    /\ UNCHANGED harnessVars

\* _save_suggestions_to_database returned (line 300); _update_metrics
\* (line 303) follows without an await.
Saved(r) ==
    /\ metrics' = UpdateMetrics(metrics, batch)
    /\ pc' = "broadcast"
    /\ run' = r

\* lines 642-658: add and flush the next suggestion; on an exception the
\* except branch, lines 665-668, rolls back and returns [].
SaveAdd(ok) ==
    /\ pc = "save"
    /\ Len(ids) < Len(batch.suggestions)
    /\ LET i == Len(ids) + 1 IN
       IF ok
       THEN /\ pending' = Append(pending, Row(batch.batch_id, i))
            /\ ids' = Append(ids, RowKey(batch.batch_id, i))
            /\ dbRows' = AfterFlush(dbRows, pending')
            /\ run' = Step("save")
            /\ UNCHANGED <<pc, metrics>>
       ELSE /\ pending' = AfterRollback(pending)
            /\ ids' = SaveFailedIds(ids)
            /\ dbRows' = dbRows
            /\ Saved([Step("save") EXCEPT !.save = "failed", !.saveAt = i])
    /\ UNCHANGED <<trig, ctx, candidates, batch, sse, mresult, result,
                   batchLen, seen>>
    /\ UNCHANGED bucketVars
    /\ UNCHANGED harnessVars

\* line 660: the one commit of the batch; on an exception, as above.
SaveCommit(ok) ==
    /\ pc = "save"
    /\ Len(ids) = Len(batch.suggestions)
    /\ IF ok
       THEN /\ dbRows' = AfterCommit(dbRows, pending)
            /\ pending' = <<>>
            /\ ids' = ids
            /\ Saved([Step("save") EXCEPT !.save = "ok"])
       ELSE /\ dbRows' = dbRows
            /\ pending' = AfterRollback(pending)
            /\ ids' = SaveFailedIds(ids)
            /\ Saved([Step("save") EXCEPT !.save = "failed",
                                          !.saveAt = Len(ids) + 1])
    /\ UNCHANGED <<trig, ctx, candidates, batch, sse, mresult, result,
                   batchLen, seen>>
    /\ UNCHANGED bucketVars
    /\ UNCHANGED harnessVars

FinalOutcome(r) == IF r.save = "ok" THEN "persisted" ELSE "persist_failed"

\* get_health_status, lines 734-767, of a started engine.  The status is
\* "degraded" when the average of the processing times is above 10 s; a
\* processing time is measured before the save (line 290) and is not
\* modelled, nor is the uptime.
GetHealthStatus ==
    [status |-> "healthy",
     metrics |-> metrics,
     rate_limit_status |->
         StatusRet(refill_rate,
                   RefillTokens(capacity, refill_rate, tokens, last_refill,
                                now)[1])]

\* lines 306-313: _broadcast_suggestion_batch (its failure is swallowed);
\* with no suggestion ids the call returns the batch at once.
Broadcast(sent) ==
    /\ pc = "broadcast"
    /\ sse' = IF sent
              THEN [event |-> "suggestion_batch", id |-> batch.batch_id,
                    wait |-> 0]
              ELSE sse
    /\ LET r == [Step("broadcast") EXCEPT !.sent = sent] IN
       IF ids # <<>>
       THEN /\ pc' = "mark"
            /\ run' = r
            /\ UNCHANGED <<mresult, result, seen>>
       ELSE Return(TriggerReturn(batch, ids), FinalOutcome(r), r)
    /\ UNCHANGED <<trig, ctx, candidates, batch, ids, pending, dbRows, metrics,
                   batchLen>>
    /\ UNCHANGED bucketVars
    /\ UNCHANGED harnessVars

\* lines 309-313: _mark_suggestions_delivered (update and commit; on an
\* exception rollback, lines 691-693), then return batch.
Mark(ok) ==
    /\ pc = "mark"
    /\ dbRows' = IF ok THEN MarkDelivered(dbRows, ids) ELSE dbRows
    /\ Return(TriggerReturn(batch, ids), FinalOutcome(run), Step("mark"))
    /\ UNCHANGED <<trig, ctx, candidates, batch, ids, pending, metrics, sse,
                   batchLen>>
    /\ UNCHANGED bucketVars
    /\ UNCHANGED harnessVars

\* GumboEngine.__init__ (lines 168-181) and GumboRateLimiter.__init__
\* (lines 191-195), started.
TriggerInit ==
    /\ pc = "idle"
    /\ trig = 0
    /\ ctx = FallbackContext
    /\ candidates = <<>>
    /\ batch = NoBatch
    /\ ids = <<>>
    /\ pending = <<>>
    /\ dbRows = {}
    /\ metrics = [total_suggestions |-> 0, total_batches |-> 0,
                  rate_limit_hits |-> 0]
    /\ sse = NoEvent
    /\ mresult = PendingResult
    /\ result = PendingResult
    /\ run = [gate |-> "none", wait |-> 0, steps |-> {}, n |-> 0,
              retr |-> "none", gen |-> "none", score |-> "none",
              save |-> "none", saveAt |-> 0, sent |-> FALSE, hits0 |-> 0,
              outcome |-> "none"]
    /\ batchLen = [b \in 1..MaxTriggers |-> 0]
    /\ seen = [deferred |-> "unseen", failed |-> "unseen",
               produced |-> "unseen"]

\* Neither a single caller nor a function call taken alone.
HarnessInit ==
    /\ hist = NoHist
    /\ pure = NoPure
    /\ bm = NewManager

vars == <<capacity, refill_rate, tokens, last_refill, now, tpc, ret, refilled,
          granted, pc, trig, ctx, candidates, batch, ids, pending, dbRows,
          metrics, sse, mresult, result, run, batchLen, seen, hist, pure, bm>>

\* The steps of the trigger call in flight.
TriggerStep ==
    \/ RateCheck
    \/ \E sent \in BOOLEAN : RateDenied(sent)
    \/ \E found \in {"found", "missing", "error"} : GetTrigger(found)
    \/ \E qcall \in CallOutcomes, scall \in {"ok", "error"},
          found \in 0..MaxFound, hasTrigger \in BOOLEAN :
              Retrieve(qcall, scall, found, hasTrigger)
    \/ \E o \in GenOutcomes : Generate(o)
    \/ \E o \in ScoreOutcomes[candidates] : Score(o)
    \/ \E sent \in BOOLEAN : Failing(sent)
    \/ \E ok \in BOOLEAN : SaveAdd(ok)
    \/ \E ok \in BOOLEAN : SaveCommit(ok)
    \/ \E sent \in BOOLEAN : Broadcast(sent)
    \/ \E ok \in BOOLEAN : Mark(ok)

\* The engine with the Gumbo rate limiter: trigger calls one after the other,
\* the clock and the refill worker of the bucket.
Init ==
    /\ BucketInit
    /\ capacity = GumboCapacity
    /\ refill_rate = GumboRefillRate
    /\ TriggerInit
    /\ HarnessInit

\* The engine reads the clock in RateCheck and RateDenied only, and nothing
\* but the bucket is touched by the refill worker: a tick or a refill during
\* any other step has the effect of the same tick or refill after the call
\* next clock read.  So the model lets time pass right before the clock
\* reads: when a call has started, and between acquire and get_wait_time.
ClockMatters == pc \in {"rate_check", "rate_denied"}

EngineTick == ClockMatters /\ Tick

EngineRefill == ClockMatters /\ RefillWorker

Next ==
    \/ TriggerStart
    \/ TriggerStep
    \/ EngineRefill
    \/ EngineTick

Spec == Init /\ [][Next]_vars

\* A TokenBucketRateLimiter of any capacity and rate, called by threads.
InitBucket == BucketInit /\ TriggerInit /\ HarnessInit

SpecBucket == InitBucket /\ [][BucketNext]_vars

\* =========================================================== functions alone
\* A function of the engine called once on an argument drawn from bounded
\* sets: pure is [fn, arg, done, out].
PureCall(f, a) == [fn |-> f, arg |-> a, done |-> FALSE, out |-> 0]

Returns(v) == pure' = [pure EXCEPT !.done = TRUE, !.out = v]

Called(f) == pure.fn = f /\ ~pure.done

QuietEngine ==
    /\ BucketInit
    /\ capacity = GumboCapacity
    /\ refill_rate = GumboRefillRate
    /\ TriggerInit
    /\ hist = NoHist
    /\ bm = NewManager

\* Candidate lists of any length up to MaxList, the i-th with the title
\* Title(i): all objects, or all objects but one string.
KindLists ==
    {[i \in 1..n |-> IF i = p THEN "str" ELSE "dict"] :
        n \in 0..MaxList, p \in 0..MaxList}

CandidatesOf(kinds) ==
    [i \in 1..Len(kinds) |-> LlmCandidate(kinds[i], Title(i))]

ScoreCalls ==
    \E k \in KindLists : pure = PureCall("score_suggestions", CandidatesOf(k))

\* How the scoring call went: it failed (timeout or exception), its answer
\* gave no entry to work with (no JSON, no key, null, an empty list), or
\* it gave entries.
ScoringWent(a) ==
    IF a.call # "ok" THEN "failed"
    ELSE LET v == ParseJsonResponse(a.text, a.payload) IN
         IF v.null \/ v.items = <<>> THEN "unusable" ELSE "entries"

\* _score_suggestions(trigger_prop, suggestions, context_result), with the
\* answer of the completion service drawn here.
ApplyScore ==
    /\ Called("score_suggestions")
    /\ \E a \in ScoreAnswers :
          Returns([went |-> ScoringWent(a),
                   res |-> ScoreSuggestions(pure.arg, a.call, a.text,
                                            a.payload)])
    /\ UNCHANGED <<bucketVars, triggerVars, hist, bm>>

\* ------------------------------------------------ SuggestionDeduplicator
\* A ScoredSuggestion is its text (title + " " + description), its priority
\* and its category.  "x", "y", "z" are three texts with words in them;
\* "stop" is a text made of English stop words only, which the vectorizer
\* (stop_words='english') maps to the zero vector.  Which pairs of different
\* texts have a cosine similarity above the threshold is an input, `near`.
SuggTexts == {"x", "y", "z", "stop"}

Categories == {"a", "b", "c"}

NearRelations == SUBSET {{"x", "y"}, {"y", "z"}, {"x", "z"}}

\* cosine similarity of the TF-IDF vectors, in percent: 100 for the same
\* text, 95 for a pair of `near`, taken as 0 for any other pair; 0 with a
\* zero vector.
Similarity(a, b, near) ==
    IF a.text = "stop" \/ b.text = "stop" THEN 0
    ELSE IF a.text = b.text THEN 100
    ELSE IF {a.text, b.text} \in near THEN 95
    ELSE 0

\* similarities[i][j] > similarity_threshold, line 300 (threshold 0.92)
AboveThreshold(a, b, near) == Similarity(a, b, near) > 92

\* fit_transform raises ValueError (empty vocabulary) when no text has a word
\* that is no stop word.
VectorizerRaises(list) == \A i \in 1..Len(list) : list[i].text = "stop"

\* [sugg for i, sugg in enumerate(suggestions) if i not in to_remove]
RECURSIVE Without(_, _, _)
Without(list, removed, k) ==
    IF k = 0 THEN <<>>
    ELSE IF k \in removed THEN Without(list, removed, k - 1)
    ELSE Append(Without(list, removed, k - 1), list[k])

\* The nested loop of lines 294-306, at the pair (i, j): the set to_remove.
RECURSIVE FindDuplicates(_, _, _, _, _)
FindDuplicates(list, near, i, j, removed) ==
    IF i > Len(list) THEN removed
    ELSE IF i \in removed \/ j > Len(list)
         THEN FindDuplicates(list, near, i + 1, i + 2, removed)
    ELSE IF j \in removed
         THEN FindDuplicates(list, near, i, j + 1, removed)
    ELSE IF AboveThreshold(list[i], list[j], near)
         THEN IF list[i].priority >= list[j].priority
              THEN FindDuplicates(list, near, i, j + 1, removed \cup {j})
              ELSE FindDuplicates(list, near, i + 1, i + 2, removed \cup {i})
    ELSE FindDuplicates(list, near, i, j + 1, removed)

\* A deduplication that compares each suggestion with its successor only.
DeduplicateNeighbours(list, near) ==
    Without(list,
            {j \in 2..Len(list) : AboveThreshold(list[j - 1], list[j], near)},
            Len(list))

\* deduplicate_suggestions, lines 275-315
DeduplicateSuggestions(list, near) ==
    IF Len(list) <= 1 THEN list
    ELSE IF VectorizerRaises(list) THEN list
    ELSE Without(list, FindDuplicates(list, near, 1, 2, {}), Len(list))

\* sorted(suggestions, key=priority, reverse=True): stable, as Python's sort.
RECURSIVE SortByPriority(_, _)
SortByPriority(list, k) ==
    IF k = 0 THEN <<>>
    ELSE LET s == SortByPriority(list, k - 1)
             n == Cardinality({j \in 1..Len(s) :
                                  s[j].priority >= list[k].priority})
         IN  SubSeq(s, 1, n) \o <<list[k]>> \o SubSeq(s, n + 1, Len(s))

CountOf(list, c) == Cardinality({j \in 1..Len(list) : list[j].category = c})

\* lines 332-335: the first k items of the sorted list, capped per category.
RECURSIVE CapByCategory(_, _, _)
CapByCategory(sorted, cap, k) ==
    IF k = 0 THEN <<>>
    ELSE LET f == CapByCategory(sorted, cap, k - 1) IN
         IF CountOf(f, sorted[k].category) < cap
         THEN Append(f, sorted[k]) ELSE f

\* max(remaining, key=...): the first index of S with the greatest value.
FirstBest(S, value(_)) ==
    CHOOSE i \in S : \A j \in S :
        value(i) > value(j) \/ (value(i) = value(j) /\ i <= j)

\* lines 371-381, times 1000: lambda_param = 0.7, priority in tenths.
MmrScore(list, near, selected, i) ==
    LET sims == {Similarity(list[i], list[selected[m]], near) :
                    m \in 1..Len(selected)}
        max_similarity == CHOOSE x \in sims : \A y \in sims : x >= y
    IN  70 * list[i].priority - 3 * max_similarity

\* the while loop of lines 363-389
RECURSIVE MmrLoop(_, _, _, _, _)
MmrLoop(list, k, near, selected, remaining) ==
    IF Len(selected) < k /\ remaining # {}
    THEN LET score(i) == MmrScore(list, near, selected, i)
             best == FirstBest(remaining, score)
         IN  MmrLoop(list, k, near, Append(selected, best),
                     remaining \ {best})
    ELSE selected

\* _apply_mmr, lines 343-393, for a list that is not empty
ApplyMmr(list, k, near) ==
    IF VectorizerRaises(list)
    THEN Prefix(SortByPriority(list, Len(list)), k)
    ELSE LET prio(i) == list[i].priority
             first == FirstBest(1..Len(list), prio)
             sel == MmrLoop(list, k, near, <<first>>,
                            (1..Len(list)) \ {first})
         IN  [m \in 1..Len(sel) |-> list[sel[m]]]

\* A selection that stops after the cap per category.
SelectCappedOnly(list, max, cap, near) ==
    IF Len(list) <= max THEN list
    ELSE CapByCategory(SortByPriority(list, Len(list)), cap, Len(list))

\* select_diverse_suggestions, lines 317-341

SelectDiverseSuggestions(list, max, cap, near) ==
    IF Len(list) <= max THEN list
    ELSE LET f == CapByCategory(SortByPriority(list, Len(list)), cap,
                                Len(list))
         IN  IF Len(f) <= max THEN f ELSE ApplyMmr(f, max, near)

\* ----- the calls
Suggs == [text : SuggTexts, priority : 1..MaxPrio, category : {"a"}]

DedupCalls ==
    \E n \in 0..MaxSugg : \E l \in [1..n -> Suggs] :
        pure = PureCall("deduplicate_suggestions", l)

ApplyDedup ==
    /\ Called("deduplicate_suggestions")
    /\ \E near \in NearRelations :
          Returns([near |-> near, list |-> DeduplicateSuggestions(pure.arg, near)])
    /\ UNCHANGED <<bucketVars, triggerVars, hist, bm>>

\* The texts of a list given to the selection: all of stop words, or the
\* three texts with words in turn.
TextAt(i, stop) == IF stop THEN "stop" ELSE <<"x", "y", "z">>[((i - 1) % 3) + 1]

SelectList(ps, cs, stop) ==
    [i \in 1..Len(ps) |->
        [text |-> TextAt(i, stop), priority |-> ps[i], category |-> cs[i]]]

\* Calls with small limits, and calls with the default limits.
SelectCalls ==
    \/ \E n \in 0..MaxSugg :
          \E ps \in [1..n -> 1..MaxPrio], cs \in [1..n -> Categories],
             stop \in BOOLEAN, m \in 1..MaxParam, c \in 1..MaxParam :
              pure = PureCall("select_diverse_suggestions",
                              [list |-> SelectList(ps, cs, stop),
                               max |-> m, cap |-> c])
    \/ \E n \in 0..MaxList : \E cs \in [1..n -> Categories] :
          pure = PureCall("select_diverse_suggestions",
                          [list |-> SelectList([i \in 1..n |-> 1], cs, FALSE),
                           max |-> MaxSuggestions, cap |-> MaxPerCategory])

ApplySelect ==
    /\ Called("select_diverse_suggestions")
    /\ \E near \in NearRelations :
          Returns(SelectDiverseSuggestions(pure.arg.list, pure.arg.max,
                                           pure.arg.cap, near))
    /\ UNCHANGED <<bucketVars, triggerVars, hist, bm>>

\* ------------------------- EnhancedSuggestionEngine.generate_suggestions
\* What a cycle over n bundles returns, lines 581-683: `llm_calls` counts the
\* calls of ai_client.complete_text, one per bundle (line 592); scored are
\* the suggestions that came back and were scored, at most one per bundle;
\* the save at the end may fail, which is logged only.
GenerateSuggestions(created, n, scored, near, max, saved) ==
    IF ~created \/ n = 0
    THEN [llm_calls |-> 0, final |-> <<>>, saved |-> 0]
    ELSE LET final == SelectDiverseSuggestions(
                          DeduplicateSuggestions(scored, near),
                          max, MaxPerCategory, near)
         IN  [llm_calls |-> n, final |-> final,
              saved |-> IF saved THEN Len(final) ELSE 0]

GenerateCalls ==
    \E n \in 0..MaxParam :
        pure = PureCall("generate_suggestions",
                        [bundles |-> n, max |-> MaxSuggestions])

\* The cycle runs from create_bundles to the return without a call of the
\* rate limiter: the bucket is as it was.
ApplyGenerate ==
    /\ Called("generate_suggestions")
    /\ \E created \in BOOLEAN, saved \in BOOLEAN, near \in NearRelations,
          k \in 0..pure.arg.bundles :
        \E scored \in [1..k -> Suggs] :
          Returns(GenerateSuggestions(created, pure.arg.bundles, scored, near,
                                      pure.arg.max, saved))
    /\ UNCHANGED <<bucketVars, triggerVars, hist, bm>>

\* One caller making the calls of the bucket one after the other, with the
\* refill worker running and the clock advancing between and inside them.
Caller == 1

InitCalls ==
    /\ BucketInit
    /\ TriggerInit
    /\ hist = FullHist("init")
    /\ pure = NoPure
    /\ bm = NewManager

NextCalls ==
    \/ AcquireBegin(Caller)
    \/ \E n \in 1..MaxAcquire : AcquireTake(Caller, n)
    \/ WaitBegin(Caller)
    \/ WaitRead(Caller)
    \/ StatusBegin(Caller)
    \/ StatusRead(Caller)
    \/ Reset(Caller)
    \/ RefillWorker
    \/ Tick

SpecCalls == InitCalls /\ [][NextCalls]_vars

\* The functions called alone, each once.
\* --------------------------------------------------------- BundleCreator
\* A proposition is its id, the entities extract_entities found in
\* text + " " + reasoning (here the categories "apps" and "keywords"), and
\* how many days it lies from the anchor facts (all facts at day 0).
EntityDicts ==
    {[apps |-> {}, keywords |-> {}],
     [apps |-> {"zoom"}, keywords |-> {}],
     [apps |-> {"zoom", "slack"}, keywords |-> {"deadline"}],
     [apps |-> {}, keywords |-> {"deadline"}]}

InferenceAges == {0, 8}

FactsOf(ents) == [i \in 1..Len(ents) |-> [id |-> i, ents |-> ents[i], age |-> 0]]

InferencesOf(ps) ==
    [i \in 1..Len(ps) |-> [id |-> 100 + i, ents |-> ps[i].ents, age |-> ps[i].age]]

\* `weights`, lines 207-216, in tenths
Weight(category) == IF category = "apps" THEN 30 ELSE 8

\* _calculate_entity_similarity, lines 200-231, in thousandths
EntitySimilarity(e1, e2) ==
    LET Both(c) == e1[c] # {} /\ e2[c] # {}
        Jaccard(c) == (1000 * Cardinality(e1[c] \cap e2[c]))
                          \div Cardinality(e1[c] \cup e2[c])
        Scored(c) == IF Both(c) THEN Jaccard(c) * Weight(c) ELSE 0
        Counted(c) == IF Both(c) THEN Weight(c) ELSE 0
        total_score == Scored("apps") + Scored("keywords")
        total_weight == Counted("apps") + Counted("keywords")
    IN  IF total_weight > 0 THEN total_score \div total_weight ELSE 0

\* lines 184-191, in thousandths: the time score decays over a week.
Relevance(fact, inference) ==
    LET days == IF fact.age >= inference.age THEN fact.age - inference.age
                ELSE inference.age - fact.age
        time_score == Max(0, 1000 - (1000 * days) \div 7)
    IN  (7 * EntitySimilarity(fact.ents, inference.ents) + 3 * time_score)
            \div 10

\* Every inference counts as related, whatever its relevance.
RelatedAlways(fact, inference) == TRUE

\* line 193
IsRelated(fact, inference) == Relevance(fact, inference) > RelevanceThreshold

\* _find_related_inferences, lines 174-198, over the first k inferences:
\* the related ones by descending relevance (stable), before the cut to 5.
RECURSIVE RelatedSorted(_, _, _)
RelatedSorted(fact, inferences, k) ==
    IF k = 0 THEN <<>>
    ELSE LET s == RelatedSorted(fact, inferences, k - 1)
             n == Cardinality({j \in 1..Len(s) :
                     Relevance(fact, s[j]) >= Relevance(fact, inferences[k])})
         IN  IF IsRelated(fact, inferences[k])
             THEN SubSeq(s, 1, n) \o <<inferences[k]>>
                      \o SubSeq(s, n + 1, Len(s))
             ELSE s

FindRelatedInferences(fact, inferences) ==
    Prefix(RelatedSorted(fact, inferences, Len(inferences)), RelatedLimit)

\* The shared entities taken from the inferences alone.
SharedFromInferences(fact_entities, related) ==
    UNION {related[i].ents[c] : c \in {"apps", "keywords"},
                                i \in 1..Len(related)}

\* _calculate_shared_entities, lines 233-245
SharedEntities(fact_entities, related) ==
    UNION {fact_entities[c] \cap related[i].ents[c] :
              c \in {"apps", "keywords"}, i \in 1..Len(related)}

\* create_bundles, lines 143-172, over the first k facts (ids are unique, so
\* no fact is in used_facts when its turn comes).
RECURSIVE CreateBundles(_, _, _)
CreateBundles(facts, inferences, k) ==
    IF k = 0 THEN <<>>
    ELSE LET bundles == CreateBundles(facts, inferences, k - 1)
             related == FindRelatedInferences(facts[k], inferences)
         IN  IF Len(bundles) >= MaxBundles \/ related = <<>>
             THEN bundles
             ELSE Append(bundles,
                         [anchor_fact |-> facts[k],
                          inferences |-> Prefix(related, BundleInferences),
                          shared_entities |->
                              SharedEntities(facts[k].ents, related)])

BundleCalls ==
    \E nf \in 0..MaxFacts, ni \in 0..MaxInfs :
        \E fs \in [1..nf -> EntityDicts],
           is \in [1..ni -> [ents : EntityDicts, age : InferenceAges]] :
            pure = PureCall("create_bundles",
                            [facts |-> FactsOf(fs), inferences |-> InferencesOf(is)])

ApplyBundles ==
    /\ Called("create_bundles")
    /\ Returns(CreateBundles(pure.arg.facts, pure.arg.inferences,
                             Len(pure.arg.facts)))
    /\ UNCHANGED <<bucketVars, triggerVars, hist, bm>>

\* ------------------------------------------------------- EntityExtractor
\* A text is taken by the number n of distinct keywords in it (words of three
\* letters or more that are no stop words), the keywords being 1..n.  The
\* regular expressions of the other categories give the same matches for the
\* same text and are left out.

\* _extract_keywords, lines 90-98: `keywords` is a set, so every count of
\* Counter(keywords) is 1 and most_common(10) keeps the first ten in the
\* iteration order of the set.  For a set of strings that order follows the
\* string hashes, which are salted per process: `first` stands for the
\* keywords the set of this run yields first.
ExtractKeywords(n, first) == IF n <= KeywordLimit THEN 1..n ELSE first

\* The orders a run of the program can give the set.
FirstKeywords(n) ==
    {S \in SUBSET (1..n) : Cardinality(S) = Min(n, KeywordLimit)}

ExtractCalls ==
    \E n \in 0..MaxWords : pure = PureCall("extract_entities", n)

\* extract_entities(text), lines 72-88, called on the same text in two runs
\* of the program.
ApplyExtract ==
    /\ Called("extract_entities")
    /\ \E a \in FirstKeywords(pure.arg), b \in FirstKeywords(pure.arg) :
          Returns([one_run |-> ExtractKeywords(pure.arg, a),
                   other_run |-> ExtractKeywords(pure.arg, b)])
    /\ UNCHANGED <<bucketVars, triggerVars, hist, bm>>

\* ------------------------------------------------------- expected utility
\* Scores over their valid ranges (suggestion_models.py 25-31), in the units
\* of ScoreOf: benefit, costs and decay in tenths, probabilities in percent.
ScoreLevels == {(k * 100) \div MaxGrid : k \in 0..MaxGrid}

UtilityCalls ==
    \E sc \in [benefit : ScoreLevels, fp_cost : ScoreLevels,
               fn_cost : ScoreLevels, decay : ScoreLevels,
               p_useful : ScoreLevels, p_fp : ScoreLevels,
               p_fn : ScoreLevels] :
        \E more \in {b \in ScoreLevels : b >= sc.benefit} :
            pure = PureCall("expected_utility", [scores |-> sc, more |-> more])

\* lines 534-538 for the scores of an entry, and for the same scores with
\* the higher benefit.
ApplyUtility ==
    /\ Called("expected_utility")
    /\ Returns([eu |-> ExpectedUtility(pure.arg.scores),
                eu_more |-> ExpectedUtility(
                    [pure.arg.scores EXCEPT !.benefit = pure.arg.more])])
    /\ UNCHANGED <<bucketVars, triggerVars, hist, bm>>

InitPure ==
    /\ QuietEngine
    /\ \/ ScoreCalls
       \/ DedupCalls
       \/ SelectCalls
       \/ GenerateCalls
       \/ BundleCalls
       \/ ExtractCalls
       \/ UtilityCalls

NextPure ==
    \/ ApplyScore
    \/ ApplyDedup
    \/ ApplySelect
    \/ ApplyGenerate
    \/ ApplyBundles
    \/ ApplyExtract
    \/ ApplyUtility

SpecPure == InitPure /\ [][NextPure]_vars

\* ============================================================ BufferManager
\* buffer_manager.py.  A deque is its length; `keys` is the insertion order
\* of self.buffers; buffer_timers is the set of monitors whose timer is
\* armed; `sent` and `added` count the frames handed to the flush callback
\* and to add_frame.  buffer_start_times and last_activity_flush hold clock
\* readings nothing branches on but the activity test, which is an input.
\* asyncio.Lock is not reentrant: acquire() on a held lock waits for its
\* release, whoever holds it.  The operations are tasks of one event loop: a
\* step runs from one suspension (a lock that is held, the callback) to the
\* next.
Callers == {"flush_all", "cleanup"}

\* _flush_buffer_internal(monitor_idx), lines 198-236, up to the await of the
\* callback (a callback that raises is caught at 233).
FlushBufferInternal(b, m) ==
    IF b.buffers[m] = 0 THEN b
    ELSE [b EXCEPT !.buffers[m] = 0,
                   !.recent_events[m] = 0,
                   !.buffer_timers = @ \cup {m},
                   !.sent[m] = @ + b.buffers[m]]

\* add_frame(frame, event, monitor_idx), lines 107-158.  active: the test of
\* lines 147-149 on flush_on_activity and the clock.
AddFrame(m, active) ==
    /\ bm.pc.add = "idle"
    /\ bm.lock = "free"
    /\ bm.added[m] < MaxAdded
    /\ LET known == \E k \in 1..Len(bm.keys) : bm.keys[k] = m
           b1 == IF known THEN bm
                 ELSE [bm EXCEPT !.keys = Append(@, m),
                                 !.buffer_timers = @ \cup {m}]
           b2 == [b1 EXCEPT !.buffers[m] = @ + 1,
                            !.recent_events[m] = @ + 1,
                            !.added[m] = @ + 1]
           should_flush ==
               \/ b2.buffers[m] >= MaxBufferSize
               \/ active /\ b2.recent_events[m] >= ActivityThreshold
       IN  bm' = IF should_flush
                 THEN [FlushBufferInternal(b2, m) EXCEPT
                          !.lock = "add", !.pc.add = "callback"]
                 ELSE b2
    /\ UNCHANGED <<bucketVars, triggerVars, hist, pure>>

\* The callback of add_frame's flush returned: lines 155-156 and the end of
\* `async with`.
AddReturn ==
    /\ bm.pc.add = "callback"
    /\ bm' = [bm EXCEPT !.lock = "free", !.pc.add = "idle"]
    /\ UNCHANGED <<bucketVars, triggerVars, hist, pure>>

\* The timer of lines 174-177 fires and its task runs _flush_buffer, lines
\* 184-196: without the lock when the lock is held, under it otherwise.
TimerFires(m) ==
    /\ m \in bm.buffer_timers
    /\ LET b == [bm EXCEPT !.buffer_timers = @ \ {m}]
           f == FlushBufferInternal(b, m)
       IN  bm' = IF bm.lock = "free" /\ bm.buffers[m] > 0
                 THEN [f EXCEPT !.lock = "timer", !.pc.timer = "callback"]
                 ELSE f
    /\ UNCHANGED <<bucketVars, triggerVars, hist, pure>>

TimerReturn ==
    /\ bm.pc.timer = "callback"
    /\ bm' = [bm EXCEPT !.lock = "free", !.pc.timer = "idle"]
    /\ UNCHANGED <<bucketVars, triggerVars, hist, pure>>

\* flush_all_buffers, lines 245-247: `async with self._lock`, then the list
\* of the keys.  who: a caller of its own, or cleanup at line 297.
FlushAllBegin(who) ==
    /\ bm.pc[who] = IF who = "cleanup" THEN "flush_all" ELSE "idle"
    /\ bm.lock = "free"
    /\ bm' = [bm EXCEPT !.lock = who, !.pc[who] = "flushing", !.todo = bm.keys]
    /\ UNCHANGED <<bucketVars, triggerVars, hist, pure>>

\* lines 247-250 for one monitor: _flush_buffer finds the lock held and
\* flushes directly; the callback is awaited.
FlushAllStep(who) ==
    /\ bm.pc[who] = "flushing"
    /\ bm.todo # <<>>
    /\ bm' = [FlushBufferInternal(bm, Head(bm.todo)) EXCEPT !.todo = Tail(@)]
    /\ UNCHANGED <<bucketVars, triggerVars, hist, pure>>

\* lines 252-256: flush_all_buffers returns and releases the lock; in cleanup
\* lines 299-308 follow without an await.
FlushAllEnd(who) ==
    /\ bm.pc[who] = "flushing"
    /\ bm.todo = <<>>
    /\ bm' = IF who = "cleanup"
             THEN [bm EXCEPT !.lock = "free", !.pc[who] = "returned",
                             !.keys = <<>>,
                             !.buffers = [m \in Monitors |-> 0],
                             !.buffer_timers = {},
                             !.recent_events = [m \in Monitors |-> 0]]
             ELSE [bm EXCEPT !.lock = "free", !.pc[who] = "idle"]
    /\ UNCHANGED <<bucketVars, triggerVars, hist, pure>>

\* cleanup, lines 289-297: the lock, the timers cancelled, and the call of
\* flush_all_buffers, which starts by acquiring the lock.
CleanupBegin ==
    /\ bm.pc.cleanup = "idle"
    /\ bm.lock = "free"
    /\ bm' = [bm EXCEPT !.lock = "cleanup", !.pc.cleanup = "flush_all",
                        !.buffer_timers = {}]
    /\ UNCHANGED <<bucketVars, triggerVars, hist, pure>>

InitBuffer == QuietEngine /\ pure = NoPure

NextBuffer ==
    \/ \E m \in Monitors, active \in BOOLEAN : AddFrame(m, active)
    \/ AddReturn
    \/ \E m \in Monitors : TimerFires(m)
    \/ TimerReturn
    \/ \E who \in Callers : FlushAllBegin(who)
    \/ \E who \in Callers : FlushAllStep(who)
    \/ \E who \in Callers : FlushAllEnd(who)
    \/ CleanupBegin

SpecBuffer == InitBuffer /\ [][NextBuffer]_vars

\* The event loop runs a task that can run.
SpecBufferLive == SpecBuffer /\ WF_vars(NextBuffer)

\* ===================================================================== claims
\* -------------------------------------------------- the bucket (SpecBucket)

\* C1: after every operation of the bucket (construction, refill, acquire,
\* get_wait_time, get_status, reset), and between the two lock sections of a
\* call, the token count is at least 0 and at most the capacity.
C1_TokensWithinCapacity ==
    /\ 0 <= tokens
    /\ tokens <= capacity * TokenUnit

\* A refill over a positive interval, made by get_status, found the bucket
\* full and credited nothing: the minimum with the capacity decided.
C1_RefillClampedAtCapacity ==
    /\ ret.op = "get_status"
    /\ refill_rate > 0
    /\ last_refill > 0
    /\ refilled = 0
    /\ tokens = capacity * TokenUnit

\* C2: with acquire calls of several threads interleaved, the tokens handed
\* out since construction (or the last reset) never exceed the tokens the
\* bucket held then plus the tokens refills have credited since: no token is
\* granted to two callers.
C2_GrantedWithinSupply ==
    granted <= capacity * TokenUnit + refilled

\* Every thread is between the refill and the check of an acquire call, the
\* bucket has been refilled, and every token it ever held has been granted.
C2_ConcurrentAcquiresDrained ==
    /\ \A t \in Threads : tpc[t] = "acquire"
    /\ refilled > 0
    /\ tokens = 0
    /\ granted = capacity * TokenUnit + refilled

\* ------------------------------------------------- the trigger call (Spec)
Returned == pc = "returned"

\* The limiter refused this call.
Denied == run.gate = "denied"

PipelineSteps == {"retrieve", "generate", "score", "save"}

\* The rows of batch b that other sessions can read.
StoredRows(b) == {r \in dbRows : r.batch_id = b}

\* The returned value tells the caller to wait w.
TellsWait(res, w) == res.kind = "deferred" /\ res.wait = w

MaxSteps == BatchLimit + 8

\* C5: with every LLM call and every database operation free to fail, a
\* call always has a next step until it returns, returns after a bounded
\* number of steps, and what it returns, from the engine and from the entry
\* point, is a value and never an exception.
C5_TriggerReturnsWithoutRaising ==
    /\ pc \notin {"idle", "returned"} => ENABLED TriggerStep
    /\ run.n <= MaxSteps
    /\ mresult.kind \in {"pending", "none", "batch"}
    /\ result.kind \in {"pending", "none", "batch"}
    /\ Returned => mresult.kind # "pending" /\ result.kind # "pending"

\* A call returned although retrieval, generation, scoring and persistence
\* all failed.
C5_EveryStepFailed ==
    /\ Returned
    /\ run.retr = "failed"
    /\ run.gen = "failed"
    /\ run.score = "failed"
    /\ run.save = "failed"
    /\ result.kind = "batch"

\* C6: a batch returned by a call (it has been through the save step and
\* the metrics by then) holds at least one suggestion.
C6_BatchNeverEmpty ==
    (Returned /\ result.kind = "batch") =>
        Len(result.batch.suggestions) >= 1

C8_BatchStoredAllOrNothing ==
    \A b \in 1..trig :
        \/ StoredRows(b) = {}
        \/ {r.idx : r \in StoredRows(b)} = 1..batchLen[b]

\* The second add of a batch failed after the first was flushed, nothing of
\* that batch is stored, and an earlier batch is stored in full.
C8_LaterAddFailed ==
    /\ pc = "broadcast"
    /\ run.save = "failed"
    /\ run.saveAt >= 2
    /\ StoredRows(trig) = {}
    /\ \E b \in 1..(trig - 1) : Cardinality(StoredRows(b)) >= 2

\* C9: when the generation LLM call fails (exception or timeout), whatever
\* the scoring step does, the call returns a batch of exactly one
\* suggestion, the safe fallback.
C9_GenerationFailureYieldsFallback ==
    (Returned /\ run.gen = "failed") =>
        /\ result.kind = "batch"
        /\ Len(result.batch.suggestions) = 1
        /\ result.batch.suggestions[1].title = FallbackTitle

\* Generation failed, scoring succeeded, and the call returned.
C9_FallbackScoredAndReturned ==
    /\ Returned
    /\ run.gen = "failed"
    /\ run.score = "ok"
    /\ run.save = "ok"
    /\ Len(result.batch.suggestions) = 1

\* C10: when the generation response holds no parseable JSON object, the
\* generator returns exactly the one fallback candidate.
C10_UnparseableYieldsFallback ==
    (pc = "score" /\ run.gen = "unparseable") =>
        candidates = <<FallbackCandidate>>

\* ------------------------------------------------ _score_suggestions (SpecPure)
ScoreReturned == pure.fn = "score_suggestions" /\ pure.done

AllObjects(cands) == \A i \in 1..Len(cands) : cands[i].kind = "dict"

NeutralScore(s) == s.eu = FallbackUtility /\ s.pu = FallbackProbability

C12_RetrievalFailureGivesEmptyContext ==
    run.retr = "failed" =>
        /\ pc # "retrieve"
        /\ pc = "generate" =>
              /\ ctx.related = 0
              /\ ctx.total_found = 0
              /\ ctx.query = "fallback_query"
        /\ pc \notin {"generate"} => "generate" \in run.steps
        /\ batch # NoBatch => batch.context_used = 0

\* Retrieval failed and the call is about to generate candidates.
C12_GenerationAfterFailedRetrieval ==
    /\ pc = "generate"
    /\ run.retr = "failed"
    /\ "retrieve" \in run.steps
    /\ ctx = FallbackContext

\* ------------------------------------------- one caller of the bucket (SpecCalls)
\* C13: if get_wait_time returned w on a bucket with refill_rate > 0, and the
\* next acquire(1) call starts at least w later, that call returns True,
\* whatever get_status, reset and worker refills happen in between.
C13_AcquireAfterWaitSucceeds ==
    /\ (tpc[Caller] = "acquire" /\ hist.due = "begun") => HasTokens(tokens, 1)
    /\ hist.due = "done" => ret = AcquireRet(TRUE)

\* The bucket had less than a token, the caller waited as long as it was
\* told and its acquire(1) returned True.
C13_WaitedAndAcquired ==
    /\ hist.due = "done"
    /\ hist.need > 0
    /\ now > hist.at
    /\ ret = AcquireRet(TRUE)

\* C14: from a full bucket of capacity C (constructed or reset) and with no
\* time elapsing, the i-th acquire(1) call returns True exactly when i <= C,
\* and a get_wait_time call after the first C of them returns a wait > 0
\* (infinite when refill_rate = 0).
C14_FullBucketGrantsExactlyCapacity ==
    hist.clean =>
        /\ \A i \in 1..Len(hist.seq) : hist.seq[i] = (i <= capacity)
        /\ (Len(hist.seq) >= capacity /\ ret.op = "get_wait_time") =>
              (ret.need > 0 \/ ret.inf)

\* After a reset of a bucket with the Gumbo capacity, two acquire(1) calls
\* returned True, a third False, and get_wait_time a positive wait.
C14_ThirdAcquireAfterResetDenied ==
    /\ hist.clean
    /\ hist.from = "reset"
    /\ capacity = GumboCapacity
    /\ hist.seq = <<TRUE, TRUE, FALSE>>
    /\ ret.op = "get_wait_time"
    /\ ret.need > 0

\* What a refill at this instant leaves, and what a refill at time t leaves
\* of a bucket b = <<tokens, last_refill>>.
RefillAt(b, t) == RefillTokens(capacity, refill_rate, b[1], b[2], t)

\* Each elapsed interval is credited once: a refill right after a refill
\* changes nothing, and a refill at any later time leaves the same bucket
\* whether or not a refill happened now.
CreditedOnce ==
    LET b == <<tokens, last_refill>> IN
    /\ RefillAt(RefillAt(b, now), now) = RefillAt(b, now)
    /\ \A t \in now..(MaxTime + 1) : RefillAt(RefillAt(b, now), t) = RefillAt(b, t)

\* C15 as stated: refills by the calls and by the worker credit each
\* interval once, and an acquire call returns what it would return without
\* the worker, i.e. what the count left by its own refill gives.
C15_AcquireResultIgnoresWorker ==
    /\ CreditedOnce
    /\ tpc[Caller] = "acquire" =>
          \A n \in 1..MaxAcquire :
              HasTokens(tokens, n) = HasTokens(hist.lazy, n)

\* C15 as the code has it: refills by the calls and by the worker credit
\* each interval once.  acquire refills in one lock section and checks in
\* the next: a worker refill falling between the two can only add tokens,
\* and with none in between the call checks the count its own refill left.
C15_RefillCreditsEachIntervalOnce ==
    /\ CreditedOnce
    /\ tpc[Caller] = "acquire" =>
          /\ tokens >= hist.lazy
          /\ last_refill = hist.began => tokens = hist.lazy

\* The worker refilled between the refill and the check of an acquire call,
\* and the call is about to find a token its own refill had not credited.
C15_WorkerRefilledInsideAcquire ==
    /\ tpc[Caller] = "acquire"
    /\ last_refill > hist.began
    /\ HasTokens(tokens, 1)
    /\ ~HasTokens(hist.lazy, 1)

\* ------------------------------------------------ deduplication (Spec)
\* C16 as stated, its particular case: the batch is deduplicated before it
\* is persisted, so the committed rows of a returned batch never hold two
\* suggestions with the same title and description (a Title names both).
C16_PersistedBatchHasNoDuplicates ==
    (Returned /\ result.kind = "batch") =>
        LET b == result.batch IN
        \A r1, r2 \in StoredRows(b.batch_id) :
            r1.idx # r2.idx =>
                b.suggestions[r1.idx].title # b.suggestions[r2.idx].title

\* ------------------------------------- deduplicate_suggestions (SpecPure)
DedupReturned == pure.fn = "deduplicate_suggestions" /\ pure.done

WithText(list, t) == {i \in 1..Len(list) : list[i].text = t}

\* C18 as stated, for identical texts and no other pair above the
\* threshold: of the candidates with the same title and description exactly
\* one survives, and its priority is >= that of every one of them.
C18_IdenticalCollapseToBest ==
    (DedupReturned /\ pure.out.near = {}) =>
        \A t \in SuggTexts :
            WithText(pure.arg, t) # {} =>
                /\ Cardinality(WithText(pure.out.list, t)) = 1
                /\ \A k \in WithText(pure.out.list, t) :
                      \A i \in WithText(pure.arg, t) :
                          pure.out.list[k].priority >= pure.arg[i].priority

\* ---------------------------------- select_diverse_suggestions (SpecPure)
SelectReturned == pure.fn = "select_diverse_suggestions" /\ pure.done

CategoriesOf(list) == {list[i].category : i \in 1..Len(list)}

\* C19 as stated: when the candidates span at least max_per_category
\* categories, the selection holds at most max_per_category suggestions of
\* any one category, for every input size.
C19_CategoryCapHolds ==
    (SelectReturned
        /\ Cardinality(CategoriesOf(pure.arg.list)) >= pure.arg.cap) =>
        \A c \in Categories : CountOf(pure.out, c) <= pure.arg.cap

C17_CompletionCallsAreGated ==
    (pure.fn = "generate_suggestions" /\ pure.done
                                      /\ pure.out.llm_calls > 0) =>
        granted >= TokenUnit

\* ------------------------------------------------ order of the final list
GenReturned == pure.fn = "generate_suggestions" /\ pure.done

\* C21 as stated: the scored list of a trigger batch is in non-increasing
\* order of expected utility, and the list the bundle-aware cycle returns is
\* in non-increasing order of priority.
C21_FinalListsSortedDescending ==
    /\ (ScoreReturned /\ ~pure.out.res.raised) =>
          \A i, j \in 1..Len(pure.out.res.list) :
              i < j => pure.out.res.list[i].eu >= pure.out.res.list[j].eu
    /\ GenReturned =>
          \A i, j \in 1..Len(pure.out.final) :
              i < j => pure.out.final[i].priority >= pure.out.final[j].priority

\* ------------------------------------------------------ delivery (Spec)
\* C22 as stated, its delivery part: a committed suggestion of the batch of
\* the call that has just returned is marked delivered only if the broadcast
\* of that batch took place.
C22_DeliveredOnlyAfterBroadcast ==
    Returned =>
        \A r \in StoredRows(trig) : r.delivered => run.sent

\* ------------------------------------------------------- health (Spec)
\* C23 as stated: when the batch is about to be committed, the health
\* output that follows a failed commit differs from the one that follows a
\* successful commit (the steps after the save change neither the metrics
\* nor the bucket).
C23_HealthTellsFailedWrite ==
    (pc = "save" /\ Len(ids) = Len(batch.suggestions)) =>
        \A h \in {[GetHealthStatus EXCEPT !.metrics = m] :
                     m \in {metrics, UpdateMetrics(metrics, batch)}} :
            ~ /\ ENABLED (SaveCommit(TRUE) /\ GetHealthStatus' = h)
              /\ ENABLED (SaveCommit(FALSE) /\ GetHealthStatus' = h)

\* ------------------------------------------------ create_bundles (SpecPure)
BundlesReturned == pure.fn = "create_bundles" /\ pure.done

HasRelatedInference(fact) ==
    \E i \in 1..Len(pure.arg.inferences) :
        Relevance(fact, pure.arg.inferences[i]) > RelevanceThreshold

EntitiesOf(p) == p.ents.apps \cup p.ents.keywords

\* C24: create_bundles makes no bundle for a fact none of whose inferences
\* has a relevance (0.7 x entity similarity + 0.3 x time score) above 0.1;
\* every bundle it returns has at least one inference, and each inference of
\* a bundle has a relevance above 0.1 against the bundle's anchor fact.
C24_BundlesHoldOnlyRelatedInferences ==
    BundlesReturned =>
        /\ \A f \in 1..Len(pure.arg.facts) :
              ~HasRelatedInference(pure.arg.facts[f]) =>
                  \A b \in 1..Len(pure.out) :
                      pure.out[b].anchor_fact # pure.arg.facts[f]
        /\ \A b \in 1..Len(pure.out) :
              /\ Len(pure.out[b].inferences) >= 1
              /\ \A i \in 1..Len(pure.out[b].inferences) :
                    Relevance(pure.out[b].anchor_fact,
                              pure.out[b].inferences[i]) > RelevanceThreshold

\* A bundle of two inferences was made although a third inference, an old
\* one with no entity in common with the fact, was on offer.
C24_BundleLeavesUnrelatedOut ==
    /\ BundlesReturned
    /\ Len(pure.out) = 1
    /\ Len(pure.out[1].inferences) = 2
    /\ Len(pure.arg.inferences) = 3
    /\ \E i \in 1..3 :
          Relevance(pure.arg.facts[1], pure.arg.inferences[i])
              <= RelevanceThreshold

\* A fact was on offer with inferences, none related: no bundle.
C24_NoBundleForLonelyFact ==
    /\ BundlesReturned
    /\ Len(pure.arg.facts) = 1
    /\ Len(pure.arg.inferences) >= 1
    /\ pure.out = <<>>

\* C25: the shared_entities of every bundle create_bundles returns are a
\* subset of the entities extracted from the bundle's anchor fact.
C25_SharedEntitiesComeFromAnchor ==
    BundlesReturned =>
        \A b \in 1..Len(pure.out) :
            pure.out[b].shared_entities \subseteq
                EntitiesOf(pure.out[b].anchor_fact)

\* A bundle shares an entity, and one of its inferences has an entity the
\* anchor fact has not.
C25_SharedButInferenceHasMore ==
    /\ BundlesReturned
    /\ \E b \in 1..Len(pure.out) :
          /\ pure.out[b].shared_entities # {}
          /\ \E i \in 1..Len(pure.out[b].inferences) :
                ~(EntitiesOf(pure.out[b].inferences[i]) \subseteq
                      EntitiesOf(pure.out[b].anchor_fact))

\* ---------------------------------------------- extract_entities (SpecPure)
ExtractReturned == pure.fn = "extract_entities" /\ pure.done

\* C26 as stated: extract_entities gives the same entity sets for the same
\* text in every run of the program, whatever the number of distinct
\* keywords of the text.
C26_SameKeywordsInEveryRun ==
    ExtractReturned => pure.out.one_run = pure.out.other_run

\* ---------------------------------------------- expected utility (SpecPure)
UtilityReturned == pure.fn = "expected_utility" /\ pure.done

\* C27: with all scores in their valid ranges, a higher benefit with the
\* other scores unchanged never gives a lower expected utility.
C27_UtilityMonotoneInBenefit ==
    UtilityReturned =>
        /\ ValidScores(pure.arg.scores)
        /\ pure.arg.more >= pure.arg.scores.benefit
        /\ pure.out.eu_more >= pure.out.eu

\* The higher benefit raised a negative expected utility.
C27_HigherBenefitRaisedUtility ==
    /\ UtilityReturned
    /\ pure.arg.more > pure.arg.scores.benefit
    /\ pure.out.eu < 0
    /\ pure.out.eu_more > pure.out.eu

\* ------------------------------------------- the token of a trigger (Spec)
\* C28: a trigger that passes the rate gate takes exactly one token, and no
\* step gives it back: the bucket holds its capacity plus what the refills
\* credited minus one token per trigger let through, also after triggers whose
\* proposition is missing or whose later step failed.
C28_PassedTriggerKeepsItsToken ==
    /\ tokens = capacity * TokenUnit + refilled - granted
    /\ Returned =>
          /\ granted = TokenUnit * (trig - metrics.rate_limit_hits)
          /\ Denied <=> run.hits0 # metrics.rate_limit_hits

\* Two triggers passed the gate with no refill in between, the second found
\* no proposition and returned nothing: the bucket is empty.
C28_MissingPropositionCostAToken ==
    /\ Returned
    /\ trig = 2
    /\ run.gate = "passed"
    /\ run.outcome = "not_found"
    /\ result.kind = "none"
    /\ refilled = 0
    /\ tokens = 0

\* --------------------------------- deduplicate_suggestions, again (SpecPure)
\* positions: strictly increasing places of `whole` that spell out `part`.
IsSubsequenceBy(part, whole, positions) ==
    /\ \A k \in 1..Len(part) : part[k] = whole[positions[k]]
    /\ \A k, l \in 1..Len(part) : k < l => positions[k] < positions[l]

\* C29: when deduplicate_suggestions ran without an internal error (the
\* vectorizer did not raise), no two suggestions of the result are more
\* similar than the threshold, whatever pairs the similarity matrix puts
\* above it, and the result is the input with suggestions left out, in the
\* input's order.
C29_SurvivorsPairwiseApartInOrder ==
    (DedupReturned /\ ~(Len(pure.arg) > 1 /\ VectorizerRaises(pure.arg))) =>
        /\ \A i, j \in 1..Len(pure.out.list) :
              i # j => ~AboveThreshold(pure.out.list[i], pure.out.list[j],
                                       pure.out.near)
        /\ \E positions \in [1..Len(pure.out.list) -> 1..Len(pure.arg)] :
              IsSubsequenceBy(pure.out.list, pure.arg, positions)

\* Three suggestions "x", "y", "z" with x near y and y near z but x not near
\* z, y with the lowest priority: x and z survive, in that order.
C29_NonTransitiveMiddleRemoved ==
    /\ DedupReturned
    /\ Len(pure.arg) = 3
    /\ pure.out.near = {{"x", "y"}, {"y", "z"}}
    /\ pure.arg[1].text = "x" /\ pure.arg[2].text = "y" /\ pure.arg[3].text = "z"
    /\ pure.arg[2].priority < pure.arg[1].priority
    /\ pure.out.list = <<pure.arg[1], pure.arg[3]>>

\* ------------------------------------------- BufferManager.cleanup (SpecBuffer)
CleanedUp ==
    /\ bm.pc.cleanup = "returned"
    /\ bm.sent = bm.added
    /\ bm.keys = <<>>
    /\ bm.buffer_timers = {}
    /\ \A m \in Monitors : bm.buffers[m] = 0 /\ bm.recent_events[m] = 0

\* C30 as stated: a call of cleanup() terminates, whatever the buffers hold:
\* every frame added has then been handed to the flush callback exactly once,
\* and the buffers, the timers and the activity counters are cleared.
C30_CleanupTerminates == (bm.pc.cleanup = "flush_all") ~> CleanedUp

====
